---- MODULE Spec2Model ----
(***************************************************************************)
(* A model of pymempool: the multi-endpoint request dispatcher of          *)
(* MempoolAPI (api.py), the streaming client MempoolWebSocketClient        *)
(* (websocket.py), the fee engine RecommendedFees (recommended_fees.py)    *)
(* and the estimators DifficultyAdjustment (difficulty_adjustment.py) and   *)
(* Halving (halving.py).                                                   *)
(***************************************************************************)
EXTENDS Integers, Sequences, FiniteSets, TLC

VARIABLES
    \* ---- MempoolAPI (api.py) ----
    api_base_url,      \* the Endpoint Set: a sequence of URL schemes, one per base URL
    retries,           \* the constructor's retries argument (urllib3.Retry total)
    method,            \* "GET" (_request) or "POST" (_send)
    index,             \* _request/_send: index of the endpoint being tried (0-based)
    last_exception,    \* _request/_send: last exception caught
    response_errors,   \* _request/_send: MempoolResponseErrors caught, in order
    budget,            \* retries the session's adapter has left on the current endpoint
    resp,              \* what session.get/session.send produced on the current endpoint
    contacts,          \* every HTTP exchange so far: <<[ep, st]>> in time order
    attempts,          \* one entry per endpoint tried: its final exchange and outcome
    result,            \* what the call gave its caller
    dpc,               \* position of the call: "session", "respond", "done"
    \* ---- MempoolWebSocketClient (websocket.py) ----
    args,              \* the constructor's arguments, as the caller gave them
    client,            \* the fields __init__ set (self.max_retries, self.want_data, ...)
    use_queue,         \* connect(use_queue): self.queue is a Queue, else None
    retry_count,       \* connect: the local retry counter
    wstate,            \* Connecting, Subscribing, Streaming, Handling, Backoff, Stopped
    conn,              \* number of connections opened so far; the current one's id
    outbound,          \* every message sent: <<[conn, msg]>> in time order
    inbound,           \* every message read: <<[conn, id, kind]>> in time order
    delivered,         \* every delivery: <<[id, sink]>> in time order
    completed,         \* handler invocations that have finished
    fails_before,      \* retry_count when the current connection was opened
    exit_cause,        \* why the loop ended: "none", "max_retries", "unexpected"
    handler_end,       \* how the latest handler invocation ended, "none" before it
    backoff,           \* connect: the sleep in progress (units of 1/BackoffUnit s), else None
    \* ---- RecommendedFees (recommended_fees.py) ----
    rfees,             \* the instance: its fields, as a record
    fee_call,          \* the latest call on it: operation, arguments, return value
    \* ---- DifficultyAdjustment (difficulty_adjustment.py) ----
    da,                \* the instance: its fields, as a record
    da_call,           \* the latest call on it: operation, arguments, clock
    \* ---- Halving (halving.py) ----
    halving,           \* the instance: its fields, as a record
    halving_call       \* the latest call on it: operation, arguments, clock

dvars == <<api_base_url, retries, method, index, last_exception, response_errors,
           budget, resp, contacts, attempts, result, dpc>>
wvars == <<args, client, use_queue, retry_count, wstate, conn, outbound, inbound,
           delivered, completed, fails_before, exit_cause, handler_end, backoff>>
cvars == <<rfees, fee_call, da, da_call, halving, halving_call>>
vars == <<dvars, wvars, cvars>>

\* ------------------------------------------------------------------ bounds
MaxEndpoints == 2
MaxRetries == 2
MaxRetriesWS == 3
MaxConnects == 2
MaxMessages == 2
MaxProjections == 4
MaxSeqProjections == 2
\* the seven subscription categories of subscribe_all
NCategories == 7

\* ------------------------------------------------------- dispatcher: values
Schemes == {"https", "http"}
Methods == {"GET", "POST"}
\* One HTTP exchange ends in a connection-level error or in a status line:
\* a 2xx, a non-2xx outside the retry policy's list (e.g. 404), or a status
\* of the list 502/503/504/429.
Exchanges == {"connect_error", "2xx", "4xx", "503"}
\* A response body is valid JSON, UTF-8 text that is not JSON, or not UTF-8.
Bodies == {"json", "text", "binary"}

NoException == [type |-> "None"]
NoResult == [kind |-> "none"]
NoResponse == [kind |-> "none"]

\* session.mount("https://", HTTPAdapter(max_retries=Retry(total=retries, ...))):
\* only https URLs go through the retrying adapter; the session's default
\* adapter for http:// has max_retries = 0.
AdapterBudget(scheme, r) == IF scheme = "https" THEN r ELSE 0

\* urllib3.Retry(total, status_forcelist=[502, 503, 504, 429]): a connection
\* error is retried for every method, a status of the list only for the
\* idempotent methods (GET, not POST).
StatusForcelist(scheme, m, st) == scheme = "https" /\ st = "503" /\ m = "GET"

AdapterRetriesNoStatus(scheme, m, st) ==
    scheme = "https" /\ st = "connect_error"
AdapterRetries(scheme, m, st) ==
    scheme = "https" /\ (st = "connect_error" \/ StatusForcelist(scheme, m, st))

\* What session.get / session.send gives once the adapter stops retrying:
\* an exception (requests.exceptions.RequestException) or a response.
SessionResult(scheme, m, st) ==
    IF st = "connect_error" THEN [kind |-> "exception", what |-> "ConnectionError"]
    ELSE IF StatusForcelist(scheme, m, st) THEN [kind |-> "exception", what |-> "RetryError"]
    ELSE [kind |-> "response", status |-> st]

\* MempoolAPI.__request after session.get: the outcome of one endpoint.
RequestOutcome(r, body, ep) ==
    IF r.kind = "exception"
    THEN [kind |-> "raise",
          error |-> [type |-> "MempoolNetworkError", ep |-> ep, cause |-> r.what]]
    ELSE IF r.status # "2xx"
    THEN CASE body = "json" ->
                [kind |-> "raise",
                 error |-> [type |-> "MempoolResponseError", ep |-> ep, content |-> "body"]]
           [] body = "text" ->
                [kind |-> "raise",
                 error |-> [type |-> "MempoolResponseError", ep |-> ep, content |-> "status"]]
           [] body = "binary" ->
                [kind |-> "raise", error |-> [type |-> "UnicodeDecodeError", ep |-> ep]]
    ELSE CASE body = "json" -> [kind |-> "return", ep |-> ep, payload |-> "parsed"]
           [] body = "text" -> [kind |-> "return", ep |-> ep, payload |-> "str"]
           [] body = "binary" -> [kind |-> "return", ep |-> ep, payload |-> "bytes"]

\* MempoolAPI.__send after session.send.
SendOutcome(r, body, ep) ==
    IF r.kind = "exception"
    THEN [kind |-> "raise",
          error |-> [type |-> "MempoolNetworkError", ep |-> ep, cause |-> r.what]]
    ELSE IF body = "binary"
    THEN [kind |-> "raise", error |-> [type |-> "UnicodeDecodeError", ep |-> ep]]
    ELSE IF r.status # "2xx"
    THEN [kind |-> "raise",
          error |-> [type |-> "MempoolResponseError", ep |-> ep, content |-> "body"]]
    ELSE [kind |-> "return", ep |-> ep, payload |-> "str"]

Outcome(m, r, body, ep) ==
    IF m = "GET" THEN RequestOutcome(r, body, ep) ELSE SendOutcome(r, body, ep)

\* get_api_base_url(index)
get_api_base_url(i) ==
    IF Len(api_base_url) > i THEN api_base_url[i + 1] ELSE api_base_url[1]

\* ------------------------------------------------------ dispatcher: actions
\* The fee engine and the estimator are not part of a dispatcher or streaming run.
HIdle == halving = <<>> /\ halving_call = <<>>
CIdle == rfees = <<>> /\ fee_call = <<>> /\ da = <<>> /\ da_call = <<>> /\ HIdle

\* The streaming client is not part of a dispatcher run.
WIdle ==
    /\ args = <<>> /\ client = <<>> /\ use_queue = FALSE /\ retry_count = 0
    /\ wstate = "Unused" /\ conn = 0 /\ outbound = <<>> /\ inbound = <<>>
    /\ delivered = <<>> /\ completed = 0 /\ fails_before = 0
    /\ exit_cause = "none" /\ handler_end = "none" /\ backoff = <<>>

DInit ==
    /\ api_base_url \in UNION {[1..n -> Schemes] : n \in 1..MaxEndpoints}
    /\ retries \in 0..MaxRetries
    /\ method \in Methods
    /\ index = 0
    /\ last_exception = NoException
    /\ response_errors = <<>>
    /\ budget = AdapterBudget(api_base_url[1], retries)
    /\ resp = NoResponse
    /\ contacts = <<>>
    /\ attempts = <<>>
    /\ result = NoResult
    /\ dpc = "session"
    /\ WIdle
    /\ CIdle

\* One HTTP exchange made by session.get / session.send on the endpoint at
\* `index`; the adapter retries it while its policy and budget allow.
SessionExchange(st) ==
    /\ dpc = "session"
    /\ contacts' = Append(contacts, [ep |-> index, st |-> st])
    /\ IF AdapterRetries(get_api_base_url(index), method, st) /\ budget > 0
       THEN /\ budget' = budget - 1
            /\ UNCHANGED <<resp, dpc>>
       ELSE /\ resp' = SessionResult(get_api_base_url(index), method, st)
            /\ dpc' = "respond"
            /\ UNCHANGED budget
    /\ UNCHANGED <<api_base_url, retries, method, index, last_exception,
                   response_errors, attempts, result, wvars, cvars>>

\* The code after the loop: the first MempoolResponseError collected, else a
\* MempoolNetworkError made from last_exception.
RaisedAfterLoopLast(errs, e) ==
    IF errs # <<>> THEN errs[Len(errs)]
    ELSE [type |-> "MempoolNetworkError", cause |-> e]
RaisedAfterLoopRaw(errs, e) ==
    IF errs # <<>> THEN errs[1] ELSE e
RaisedAfterLoop(errs, e) ==
    IF errs # <<>> THEN errs[1]
    ELSE [type |-> "MempoolNetworkError", cause |-> e]

\* The loop's except clauses (both record the exception and advance index),
\* then the code after the loop when the list is exhausted.
Failover(e) ==
    LET errs == IF e.type = "MempoolResponseError"
                THEN Append(response_errors, e) ELSE response_errors
        next == index + 1
    IN /\ response_errors' = errs
       /\ last_exception' = e
       /\ index' = next
       /\ resp' = NoResponse
       /\ IF next < Len(api_base_url)
          THEN /\ budget' = AdapterBudget(get_api_base_url(next), retries)
               /\ dpc' = "session"
               /\ UNCHANGED result
          ELSE /\ result' = [kind |-> "raise", error |-> RaisedAfterLoop(errs, e)]
               /\ dpc' = "done"
               /\ UNCHANGED budget

\* The rest of __request / __send on the response with body `body`, and the
\* try/except of _request / _send around it.
Respond(body) ==
    /\ dpc = "respond"
    /\ (resp.kind = "exception") <=> (body = "none")
    /\ LET o == Outcome(method, resp, body, index)
       IN /\ attempts' = Append(attempts, [ep |-> index, resp |-> resp,
                                            body |-> body, outcome |-> o])
          /\ IF o.kind = "return"
             THEN /\ result' = o
                  /\ dpc' = "done"
                  /\ resp' = NoResponse
                  /\ UNCHANGED <<index, last_exception, response_errors, budget>>
             ELSE Failover(o.error)
    /\ UNCHANGED <<api_base_url, retries, method, contacts, wvars, cvars>>

DNext ==
    \/ \E st \in Exchanges : SessionExchange(st)
    \/ \E body \in Bodies \cup {"none"} : Respond(body)

SpecDispatcher == DInit /\ [][DNext]_vars

\* ------------------------------------------------- streaming client: values
\* An optional argument: None, or Some(v).
None == <<>>
Some(v) == <<v>>
IsNone(o) == o = <<>>
Get(o) == o[1]

DefaultWantData == <<"mempool-blocks", "stats">>

WantDataArgs == {None, Some(<<>>), Some(<<"stats">>)}
TrackAddressArgs == {None, Some(""), Some("bc1q")}
TrackAddressesArgs == {None, Some(<<>>), Some(<<"bc1q", "1wiz">>)}
BlockIndexArgs == {None, Some(0), Some(1)}
TrackRbfArgs == {None, Some("all"), Some("fullRbf"), Some("other")}

\* Every constructor configuration of the subscription state.
AllArgs ==
    [max_retries : {0}, max_backoff : {60}, want_data : WantDataArgs, track_address : TrackAddressArgs,
     track_addresses : TrackAddressesArgs, track_mempool : BOOLEAN,
     track_mempool_txids : BOOLEAN, track_mempool_block_index : BlockIndexArgs,
     track_rbf : TrackRbfArgs]

\* The configurations a run of the connection loop is explored with: the
\* defaults, everything configured, and the falsy-but-given values; with the
\* default max_backoff, one that caps the third sleep, and one that caps all.
RunArgs(n) ==
    { [max_retries |-> n, max_backoff |-> 60, want_data |-> None, track_address |-> None,
       track_addresses |-> None, track_mempool |-> FALSE,
       track_mempool_txids |-> FALSE, track_mempool_block_index |-> None,
       track_rbf |-> None],
      [max_retries |-> n, max_backoff |-> 5, want_data |-> Some(<<"stats">>),
       track_address |-> Some("bc1q"),
       track_addresses |-> Some(<<"bc1q", "1wiz">>), track_mempool |-> TRUE,
       track_mempool_txids |-> TRUE, track_mempool_block_index |-> Some(1),
       track_rbf |-> Some("fullRbf")],
      [max_retries |-> n, max_backoff |-> 1, want_data |-> Some(<<>>),
       track_address |-> Some(""),
       track_addresses |-> Some(<<>>), track_mempool |-> FALSE,
       track_mempool_txids |-> TRUE, track_mempool_block_index |-> Some(0),
       track_rbf |-> Some("other")] }

\* Python's `x or default` on an optional list or string argument.
OrElse(o, default, empty) ==
    IF IsNone(o) \/ Get(o) = empty THEN default ELSE Get(o)

\* MempoolWebSocketClient.__init__: the fields set from the arguments.
\* want_data = want_data or ["mempool-blocks", "stats"];
\* track_addresses = track_addresses or [].
ConstructNoDefault(a) ==
    [max_retries |-> a.max_retries, max_backoff |-> a.max_backoff,
     want_data |-> OrElse(a.want_data, <<>>, <<>>),
     track_address |-> a.track_address,
     track_addresses |-> OrElse(a.track_addresses, <<>>, <<>>),
     track_mempool |-> a.track_mempool,
     track_mempool_txids |-> a.track_mempool_txids,
     track_mempool_block_index |-> a.track_mempool_block_index,
     track_rbf |-> a.track_rbf]
Construct(a) ==
    [max_retries |-> a.max_retries, max_backoff |-> a.max_backoff,
     want_data |-> OrElse(a.want_data, DefaultWantData, <<>>),
     track_address |-> a.track_address,
     track_addresses |-> OrElse(a.track_addresses, <<>>, <<>>),
     track_mempool |-> a.track_mempool,
     track_mempool_txids |-> a.track_mempool_txids,
     track_mempool_block_index |-> a.track_mempool_block_index,
     track_rbf |-> a.track_rbf]

\* An outbound message {key: data}; {"action": "want", "data": [...]} has the
\* key "want".
Msg(key, data) == <<key, data>>
Key(m) == m[1]
Data(m) == m[2]

\* subscribe_all: the messages it sends, in the order it sends them.
SubscriptionMessages(self) ==
    (IF self.want_data # <<>>
     THEN <<Msg("want", self.want_data)>> ELSE <<>>)
    \o (IF ~IsNone(self.track_address) /\ Get(self.track_address) # ""
        THEN <<Msg("track-address", Get(self.track_address))>> ELSE <<>>)
    \o (IF self.track_addresses # <<>>
        THEN <<Msg("track-addresses", self.track_addresses)>> ELSE <<>>)
    \o (IF self.track_mempool
        THEN <<Msg("track-mempool", TRUE)>> ELSE <<>>)
    \o (IF self.track_mempool_txids
        THEN <<Msg("track-mempool-txids", TRUE)>> ELSE <<>>)
    \o (IF ~IsNone(self.track_mempool_block_index)
        THEN <<Msg("track-mempool-block", Get(self.track_mempool_block_index))>>
        ELSE <<>>)
    \o (IF ~IsNone(self.track_rbf) /\ Get(self.track_rbf) \in {"all", "fullRbf"}
        THEN <<Msg("track-rbf", Get(self.track_rbf))>> ELSE <<>>)

\* An inbound frame: text that is JSON, text that is not JSON, or a binary
\* frame whose bytes are not UTF-8 (json.loads raises UnicodeDecodeError).
Frames == {"json", "malformed", "binary"}
\* How the registered handler ends: it returns, or raises an OSError (one of
\* the errors connect() retries), a json.JSONDecodeError, or something else.
HandlerEnds == {"returns", "OSError", "JSONDecodeError", "Exception"}

\* Python's max and min of two numbers
Max2(a, b) == IF a >= b THEN a ELSE b
Min2(a, b) == IF a <= b THEN a ELSE b

\* Sleeps are counted in units of 1/BackoffUnit second.
BackoffUnit == 4
\* random.uniform(0, 1): 0, and 3/4
Jitters == {0, 3}
\* backoff = min(self.max_backoff, 2**retry_count + random.uniform(0, 1))
BackoffLinear(max_backoff, rc, jitter) ==
    Min2(max_backoff * BackoffUnit, 2 * rc * BackoffUnit + jitter)
Backoff(max_backoff, rc, jitter) ==
    Min2(max_backoff * BackoffUnit, (2 ^ rc) * BackoffUnit + jitter)

\* if retry_count > self.max_retries: break
ExceedsBudgetOffByOne(rc, max) == rc >= max
ExceedsBudget(rc, max) == rc > max

\* connect(): inside `async with`, subscribe_all() comes before receive_data().
StateAfterConnectNoSubscribe == "Streaming"
StateAfterConnect == "Subscribing"

\* receive_data: the sink of a parsed message (self.queue, else the handler).
SinkAlwaysHandler(q) == "handler"
Sink(q) == IF q THEN "queue" ELSE "handler"

\* ------------------------------------------------ streaming client: actions
\* The dispatcher is not part of a streaming run.
DIdle ==
    /\ api_base_url = <<>> /\ retries = 0 /\ method = "GET" /\ index = 0
    /\ last_exception = NoException /\ response_errors = <<>> /\ budget = 0
    /\ resp = NoResponse /\ contacts = <<>> /\ attempts = <<>>
    /\ result = NoResult /\ dpc = "unused"

WStart(a, q) ==
    /\ args = a
    /\ client = Construct(a)
    /\ use_queue = q
    /\ retry_count = 0
    /\ wstate = "Connecting"
    /\ conn = 0
    /\ outbound = <<>>
    /\ inbound = <<>>
    /\ delivered = <<>>
    /\ completed = 0
    /\ fails_before = 0
    /\ exit_cause = "none"
    /\ handler_end = "none"
    /\ backoff = None
    /\ DIdle
    /\ CIdle

WInit == \E n \in 0..MaxRetriesWS : \E a \in RunArgs(n) : \E q \in BOOLEAN : WStart(a, q)

\* The first except clause of connect(): a transport-level error.
TransportError(jitter) ==
    /\ retry_count' = retry_count + 1
    /\ IF ExceedsBudget(retry_count + 1, client.max_retries)
       THEN /\ wstate' = "Stopped"
            /\ exit_cause' = "max_retries"
            /\ UNCHANGED backoff
       ELSE /\ wstate' = "Backoff"
            /\ backoff' = Some(Backoff(client.max_backoff, retry_count + 1, jitter))
            /\ UNCHANGED exit_cause

\* The second except clause of connect(): any other exception.
UnexpectedError ==
    /\ wstate' = "Stopped"
    /\ exit_cause' = "unexpected"
    /\ UNCHANGED <<retry_count, backoff>>

\* websockets.connect(self.uri) succeeds.
ConnectOKKeepsCount ==
    /\ wstate = "Connecting"
    /\ conn < MaxConnects
    /\ fails_before' = retry_count
    /\ conn' = conn + 1
    /\ wstate' = StateAfterConnect
    /\ UNCHANGED <<args, client, use_queue, retry_count, outbound, inbound, delivered,
                   completed, exit_cause, handler_end, backoff, dvars, cvars>>
ConnectOK ==
    /\ wstate = "Connecting"
    /\ conn < MaxConnects
    /\ fails_before' = retry_count
    /\ conn' = conn + 1
    /\ retry_count' = 0
    /\ wstate' = StateAfterConnect
    /\ UNCHANGED <<args, client, use_queue, outbound, inbound, delivered, completed,
                   exit_cause, handler_end, backoff, dvars, cvars>>

\* websockets.connect(self.uri) fails (OSError, InvalidStatusCode, timeout).
ConnectFail ==
    /\ wstate = "Connecting"
    /\ \E j \in Jitters : TransportError(j)
    /\ UNCHANGED <<args, client, use_queue, conn, outbound, inbound, delivered,
                   completed, fails_before, handler_end, dvars, cvars>>

\* subscribe_all(): the first k messages are sent; with k short of all of
\* them the next send raised ConnectionClosed.
SubscribeAll(k) ==
    /\ wstate = "Subscribing"
    /\ LET msgs == SubscriptionMessages(client)
       IN /\ k \in 0..Len(msgs)
          /\ outbound' = outbound \o [i \in 1..k |-> [conn |-> conn, msg |-> msgs[i]]]
          /\ IF k = Len(msgs)
             THEN /\ wstate' = "Streaming"
                  /\ UNCHANGED <<retry_count, exit_cause, backoff>>
             ELSE \E j \in Jitters : TransportError(j)
    /\ UNCHANGED <<args, client, use_queue, conn, inbound, delivered, completed,
                   fails_before, handler_end, dvars, cvars>>

\* receive_data(): one iteration of `async for message in self.connection`
\* up to the delivery of the parsed message.
Receive(frame) ==
    /\ wstate = "Streaming"
    /\ Len(inbound) < MaxMessages
    /\ LET id == Len(inbound) + 1
       IN /\ inbound' = Append(inbound, [conn |-> conn, id |-> id, kind |-> frame])
          /\ CASE frame = "json" ->
                    /\ delivered' = Append(delivered, [id |-> id, sink |-> Sink(use_queue)])
                    /\ wstate' = IF Sink(use_queue) = "queue" THEN "Streaming" ELSE "Handling"
                    /\ UNCHANGED <<retry_count, exit_cause, backoff>>
               [] frame = "malformed" ->
                    UNCHANGED <<delivered, wstate, retry_count, exit_cause, backoff>>
               [] frame = "binary" ->
                    /\ UnexpectedError
                    /\ UNCHANGED delivered
    /\ UNCHANGED <<args, client, use_queue, conn, outbound, completed, fails_before,
                   handler_end, dvars, cvars>>

\* `await self.message_handler(data)` ends.
HandlerEnd(how) ==
    /\ wstate = "Handling"
    /\ completed' = completed + 1
    /\ handler_end' = how
    /\ CASE how \in {"returns", "JSONDecodeError"} ->
              /\ wstate' = "Streaming"
              /\ UNCHANGED <<retry_count, exit_cause, backoff>>
         [] how = "OSError" -> \E j \in Jitters : TransportError(j)
         [] how = "Exception" -> UnexpectedError
    /\ UNCHANGED <<args, client, use_queue, conn, outbound, inbound, delivered,
                   fails_before, dvars, cvars>>

\* The connection breaks while waiting for a message (ConnectionClosedError).
StreamError ==
    /\ wstate = "Streaming"
    /\ \E j \in Jitters : TransportError(j)
    /\ UNCHANGED <<args, client, use_queue, conn, outbound, inbound, delivered,
                   completed, fails_before, handler_end, dvars, cvars>>

\* The server closes the connection normally: the iteration ends, `async with`
\* exits and the while loop connects again.
StreamEndCountsRetry ==
    /\ wstate = "Streaming"
    /\ wstate' = "Connecting"
    /\ retry_count' = retry_count + 1
    /\ UNCHANGED <<args, client, use_queue, conn, outbound, inbound, delivered,
                   completed, fails_before, exit_cause, handler_end, backoff,
                   dvars, cvars>>
StreamEnd ==
    /\ wstate = "Streaming"
    /\ wstate' = "Connecting"
    /\ UNCHANGED <<args, client, use_queue, retry_count, conn, outbound, inbound,
                   delivered, completed, fails_before, exit_cause, handler_end,
                   backoff, dvars, cvars>>

\* await asyncio.sleep(backoff) returns; the while loop connects again.
SleepDone ==
    /\ wstate = "Backoff"
    /\ wstate' = "Connecting"
    /\ backoff' = None
    /\ UNCHANGED <<args, client, use_queue, retry_count, conn, outbound, inbound,
                   delivered, completed, fails_before, exit_cause, handler_end, dvars, cvars>>

WNext ==
    \/ ConnectOK
    \/ ConnectFail
    \/ \E k \in 0..NCategories : SubscribeAll(k)
    \/ \E f \in Frames : Receive(f)
    \/ \E h \in HandlerEnds : HandlerEnd(h)
    \/ StreamError
    \/ StreamEnd
    \/ SleepDone

SpecStream == WInit /\ [][WNext]_vars

\* Every constructor configuration, connected once and subscribed.
SubInit == \E a \in AllArgs : WStart(a, FALSE)
SubNext ==
    \/ ConnectOK
    \/ \E k \in 0..NCategories : SubscribeAll(k)
SpecSubscribe == SubInit /\ [][SubNext]_vars

\* =========================================================== fee engine
\* Fees are exact rationals, counted in units of 1/FeeUnit sat/vB: the code
\* halves a sum at most twice and scales by (blockVSize - 500000)/500000, and
\* on the inputs below every value it computes is a whole number of units.
FeeUnit == 40
Sat(x) == x * FeeUnit

\* recommended_fees.py: the module constants
DEFAULT_FEE == Sat(1)
MAX_MEMPOOL_MB == 300
SMALL_BLOCK_SIZE == 500000
MEDIUM_BLOCK_SIZE == 950000
\* MEMPOOL_SIZE_MULTIPLIER = 3.99, in hundredths
MEMPOOL_SIZE_MULTIPLIER == 399
BLOCK_SIZE_DIVISOR == 1000000
KB_TO_MB == 1048576
KB_TO_GB == 1073741824
DEFAULT_FEE_BLOCKS == 5


\* `not x` for an argument that is None, an empty dict or an empty list
Falsy(o) == IsNone(o) \/ DOMAIN Get(o) = {}
\* dict.get(key, default), the values held as Some(v)
DictGet(d, key, default) == IF key \in DOMAIN d THEN Some(d[key]) ELSE default

\* The float vsize / unit * MEMPOOL_SIZE_MULTIPLIER, kept exact as its operands.
ScaledSize(vsize, unit) == [vsize |-> vsize, unit |-> unit]

\* __init__: the fields before the two update calls
NewRecommendedFees ==
    [mempool_blocks_fee |-> None,
     hour_fee |-> None, half_hour_fee |-> None, fastest_fee |-> None,
     economy_fee |-> None, minimum_fee |-> Some(DEFAULT_FEE),
     default_fee |-> DEFAULT_FEE, n_fee_blocks |-> DEFAULT_FEE_BLOCKS,
     mempool_vsize |-> 0,
     mempool_size_mb |-> ScaledSize(0, KB_TO_MB),
     mempool_size_gb |-> ScaledSize(0, KB_TO_GB),
     mempool_tx_count |-> 0, mempool_blocks |-> 0,
     max_mempool_mb |-> MAX_MEMPOOL_MB]

\* update_recommended_fees: the object after the call
update_recommended_feesNoDefault(self, recommended_fees) ==
    IF Falsy(recommended_fees) THEN self
    ELSE LET d == Get(recommended_fees)
         IN [self EXCEPT
               !.hour_fee = DictGet(d, "hourFee", None),
               !.half_hour_fee = DictGet(d, "halfHourFee", None),
               !.fastest_fee = DictGet(d, "fastestFee", None),
               !.economy_fee = DictGet(d, "economy_fee", None),
               !.minimum_fee = DictGet(d, "minimumFee", None)]
update_recommended_fees(self, recommended_fees) ==
    IF Falsy(recommended_fees) THEN self
    ELSE LET d == Get(recommended_fees)
         IN [self EXCEPT
               !.hour_fee = DictGet(d, "hourFee", @),
               !.half_hour_fee = DictGet(d, "halfHourFee", @),
               !.fastest_fee = DictGet(d, "fastestFee", @),
               !.economy_fee = DictGet(d, "economy_fee", @),
               !.minimum_fee = DictGet(d, "minimumFee", @)]

\* optimize_median_fee
optimize_median_feeIgnoresNext(self, p_block, next_block, previous_fee) ==
    LET use_fee == IF ~IsNone(previous_fee)
                   THEN (p_block.medianFee + Get(previous_fee)) \div 2
                   ELSE p_block.medianFee
        block_vsize == p_block.blockVSize
    IN IF block_vsize <= SMALL_BLOCK_SIZE THEN self.default_fee
       ELSE IF block_vsize <= MEDIUM_BLOCK_SIZE
       THEN Max2((use_fee * (block_vsize - SMALL_BLOCK_SIZE)) \div SMALL_BLOCK_SIZE,
                 self.default_fee)
       ELSE use_fee
optimize_median_fee(self, p_block, next_block, previous_fee) ==
    LET use_fee == IF ~IsNone(previous_fee)
                   THEN (p_block.medianFee + Get(previous_fee)) \div 2
                   ELSE p_block.medianFee
        block_vsize == p_block.blockVSize
    IN IF block_vsize <= SMALL_BLOCK_SIZE THEN self.default_fee
       ELSE IF block_vsize <= MEDIUM_BLOCK_SIZE /\ IsNone(next_block)
       THEN Max2((use_fee * (block_vsize - SMALL_BLOCK_SIZE)) \div SMALL_BLOCK_SIZE,
                 self.default_fee)
       ELSE use_fee

\* vsize / KB_TO_MB * MEMPOOL_SIZE_MULTIPLIER < self.max_mempool_mb, that is
\* 399 * vsize < 100 * max * 2^20, computed on the quotient and remainder of
\* vsize by 2^20 to stay within 32 bits.
UnderCap(vsize, max_mempool_mb) ==
    LET q == vsize \div KB_TO_MB
        r == vsize % KB_TO_MB
        a == (MEMPOOL_SIZE_MULTIPLIER * r) \div KB_TO_MB
    IN MEMPOOL_SIZE_MULTIPLIER * q + a < 100 * max_mempool_mb

\* _calculate_mempool_stats: (vsize, count, minimum_fee) after the first n
\* iterations of its loop
RECURSIVE calculate_mempool_stats_loop(_, _, _)
calculate_mempool_stats_loop(self, mempool_blocks_fee, n) ==
    IF n = 0 THEN [vsize |-> 0, count |-> 0, minimum_fee |-> 0]
    ELSE LET prev == calculate_mempool_stats_loop(self, mempool_blocks_fee, n - 1)
             block == mempool_blocks_fee[n]
             vsize == prev.vsize + block.blockVSize
         IN [vsize |-> vsize,
             count |-> prev.count + block.nTx,
             minimum_fee |-> IF UnderCap(vsize, self.max_mempool_mb)
                             THEN block.feeRange[1] ELSE prev.minimum_fee]

\* _calculate_mempool_stats
calculate_mempool_stats(self, mempool_blocks_fee) ==
    LET r == calculate_mempool_stats_loop(self, mempool_blocks_fee,
                                          Len(mempool_blocks_fee))
    IN [r EXCEPT !.minimum_fee = Max2(@, self.default_fee)]

\* _calculate_median_fees: <<first, second, third>>
calculate_median_feesNoPrevious(self, b) ==
    LET first == IF Len(b) = 1 THEN optimize_median_fee(self, b[1], None, None)
                 ELSE IF Len(b) > 1
                 THEN optimize_median_fee(self, b[1], Some(b[2]), None)
                 ELSE self.default_fee
        second == IF Len(b) > 2
                  THEN optimize_median_fee(self, b[2], Some(b[3]), Some(first))
                  ELSE IF Len(b) > 1
                  THEN optimize_median_fee(self, b[2], None, None)
                  ELSE self.default_fee
        third == IF Len(b) > 3
                 THEN optimize_median_fee(self, b[3], Some(b[4]), Some(second))
                 ELSE IF Len(b) > 2
                 THEN optimize_median_fee(self, b[3], None, Some(second))
                 ELSE self.default_fee
    IN <<first, second, third>>
calculate_median_fees(self, b) ==
    LET first == IF Len(b) = 1 THEN optimize_median_fee(self, b[1], None, None)
                 ELSE IF Len(b) > 1
                 THEN optimize_median_fee(self, b[1], Some(b[2]), None)
                 ELSE self.default_fee
        second == IF Len(b) > 2
                  THEN optimize_median_fee(self, b[2], Some(b[3]), Some(first))
                  ELSE IF Len(b) > 1
                  THEN optimize_median_fee(self, b[2], None, Some(first))
                  ELSE self.default_fee
        third == IF Len(b) > 3
                 THEN optimize_median_fee(self, b[3], Some(b[4]), Some(second))
                 ELSE IF Len(b) > 2
                 THEN optimize_median_fee(self, b[3], None, Some(second))
                 ELSE self.default_fee
    IN <<first, second, third>>

\* _set_recommended_fees: the object after the call
set_recommended_feesNoCascade(self, minimum_fee, first, second, third) ==
    [self EXCEPT
       !.economy_fee = Some(Max2(minimum_fee, Min2(2 * minimum_fee, third))),
       !.fastest_fee = Some(Max2(minimum_fee, first)),
       !.half_hour_fee = Some(Max2(minimum_fee, second)),
       !.hour_fee = Some(Max2(minimum_fee, third))]
set_recommended_fees(self, minimum_fee, first, second, third) ==
    LET fastest_fee == Max2(minimum_fee, first)
        half_hour_fee == Max2(minimum_fee, second)
        hour_fee == Max2(minimum_fee, third)
        economy_fee == Max2(minimum_fee, Min2(2 * minimum_fee, third))
    IN [self EXCEPT
          !.economy_fee = Some(economy_fee),
          !.fastest_fee = Some(Max2(Max2(fastest_fee, half_hour_fee),
                                    Max2(hour_fee, economy_fee))),
          !.half_hour_fee = Some(Max2(half_hour_fee, Max2(hour_fee, economy_fee))),
          !.hour_fee = Some(Max2(hour_fee, economy_fee))]

\* math.ceil(vsize / BLOCK_SIZE_DIVISOR)
CeilBlocksFloorPlusOne(vsize) == vsize \div BLOCK_SIZE_DIVISOR + 1
CeilBlocks(vsize) == (vsize + BLOCK_SIZE_DIVISOR - 1) \div BLOCK_SIZE_DIVISOR

\* `if not mempool_blocks_fee or len(mempool_blocks_fee) < 1: return False`
RejectsNever(mempool_blocks_fee) == IsNone(mempool_blocks_fee)
Rejects(mempool_blocks_fee) ==
    Falsy(mempool_blocks_fee) \/ Len(Get(mempool_blocks_fee)) < 1

\* update_mempool_blocks: the object after the call and the value returned
update_mempool_blocks(self, mempool_blocks_fee) ==
    IF Rejects(mempool_blocks_fee)
    THEN [self |-> self, ret |-> FALSE, medians |-> <<>>]
    ELSE LET b == Get(mempool_blocks_fee)
             stats == calculate_mempool_stats(self, b)
             medians == calculate_median_fees(self, b)
             s1 == [self EXCEPT
                      !.mempool_blocks_fee = mempool_blocks_fee,
                      !.minimum_fee = Some(stats.minimum_fee),
                      !.mempool_vsize = stats.vsize,
                      !.mempool_size_mb = ScaledSize(stats.vsize, KB_TO_MB),
                      !.mempool_size_gb = ScaledSize(stats.vsize, KB_TO_GB),
                      !.mempool_tx_count = stats.count,
                      !.mempool_blocks = CeilBlocks(stats.vsize)]
         IN [self |-> set_recommended_fees(s1, stats.minimum_fee, medians[1],
                                           medians[2], medians[3]),
             ret |-> TRUE, medians |-> medians]

\* utils.median: a.sort() sorts the caller's list, then the middle is read.
\* Gives the value returned and the list as the call leaves it.
median(a) ==
    LET s == SortSeq(a, LAMBDA x, y : x < y)
        n == Len(s)
    IN [ret |-> IF n % 2 = 0 THEN (s[n \div 2 + 1] + s[n \div 2]) \div 2
                ELSE s[n \div 2 + 1],
        a |-> s]

\* _get_fee_data_for_block: the triple returned and the object as the call
\* leaves it (the feeRange it read is a list of the stored projection).
get_fee_data_for_block(self, block_index) ==
    IF Falsy(self.mempool_blocks_fee)
    THEN [ret |-> <<self.default_fee, self.default_fee, self.default_fee>>,
          self |-> self]
    ELSE LET blocks == Get(self.mempool_blocks_fee)
             at == IF Len(blocks) > block_index THEN block_index + 1 ELSE Len(blocks)
             block == blocks[at]
             min_fee == block.feeRange[1]
             max_fee == block.feeRange[Len(block.feeRange)]
             med == median(block.feeRange)
         IN [ret |-> <<min_fee, med.ret, max_fee>>,
             self |-> [self EXCEPT !.mempool_blocks_fee =
                          Some([blocks EXCEPT ![at].feeRange = med.a])]]

\* build_fee_array: the three lists and the object after n iterations
RECURSIVE build_fee_array_loop(_, _)
build_fee_array_loop(self, n) ==
    IF n = 0
    THEN [self |-> self, min_fees |-> <<>>, median_fees |-> <<>>, max_fees |-> <<>>]
    ELSE LET prev == build_fee_array_loop(self, n - 1)
             r == get_fee_data_for_block(prev.self, n - 1)
         IN [self |-> r.self,
             min_fees |-> Append(prev.min_fees, r.ret[1]),
             median_fees |-> Append(prev.median_fees, r.ret[2]),
             max_fees |-> Append(prev.max_fees, r.ret[3])]

build_fee_array(self) == build_fee_array_loop(self, self.n_fee_blocks)

\* RecommendedFees(recommended_fees, mempool_blocks_fee)
RecommendedFeesSnapshotLast(recommended_fees, mempool_blocks_fee) ==
    update_recommended_fees(
        update_mempool_blocks(NewRecommendedFees, mempool_blocks_fee).self,
        recommended_fees)
RecommendedFees(recommended_fees, mempool_blocks_fee) ==
    update_mempool_blocks(
        update_recommended_fees(NewRecommendedFees, recommended_fees),
        mempool_blocks_fee).self

\* ------------------------------------------------------ fee engine: inputs
\* Projected blocks: empty, medium (multiplier 0.6), full (an exact multiple of
\* BLOCK_SIZE_DIVISOR) and an aggregated tail that is over the 300 MB cap.
VSizes == {0, 800000, 1000000, 79000000}
\* nTx, medianFee and feeRange of a projection; the last feeRange is not in
\* ascending order.
FeeData ==
    {[nTx |-> 3, medianFee |-> Sat(8), feeRange |-> <<Sat(2), Sat(8), Sat(20)>>],
     [nTx |-> 1, medianFee |-> Sat(3), feeRange |-> <<Sat(1), Sat(4)>>],
     [nTx |-> 2, medianFee |-> Sat(5), feeRange |-> <<Sat(9), Sat(2), Sat(5), Sat(4)>>]}
Projection(v, f) ==
    [blockVSize |-> v, nTx |-> f.nTx, medianFee |-> f.medianFee, feeRange |-> f.feeRange]
Projections == {Projection(v, f) : v \in VSizes, f \in FeeData}
ProjectionLists(P, n) == UNION {[1..k -> P] : k \in 0..n}
\* the argument of update_mempool_blocks: None or a list of at most n projections
ListArgs(P, n) == {None} \cup {Some(l) : l \in ProjectionLists(P, n)}

\* Inputs of optimize_median_fee: sizes on both sides of SMALL_BLOCK_SIZE and
\* MEDIUM_BLOCK_SIZE and on them.
OptVSizes == {0, 400000, 500000, 550000, 800000, 950000, 1000000, 1200000}
OptBlocks == {Projection(v, f) : v \in OptVSizes, f \in FeeData}
OptNext == {None, Some(Projection(700000, CHOOSE f \in FeeData : f.nTx = 1))}
OptPrevious == {None, Some(Sat(1)), Some(Sat(4))}

\* Projections of the call sequences: a medium block, a full block whose
\* feeRange is not ascending, and the tail over the cap.
SeqProjections ==
    {Projection(800000, [nTx |-> 3, medianFee |-> Sat(8),
                         feeRange |-> <<Sat(2), Sat(8), Sat(20)>>]),
     Projection(1000000, [nTx |-> 2, medianFee |-> Sat(5),
                          feeRange |-> <<Sat(9), Sat(2), Sat(5), Sat(4)>>]),
     Projection(79000000, [nTx |-> 1, medianFee |-> Sat(3),
                           feeRange |-> <<Sat(1), Sat(4)>>])}

\* Recommended-fee snapshots: empty, complete (well above and just above the
\* mempool-derived fees), partial, and as the upstream API names its keys.
HighFees ==
    [fastestFee |-> Sat(50), halfHourFee |-> Sat(40), hourFee |-> Sat(30),
     economy_fee |-> Sat(20), minimumFee |-> Sat(10)]
LowFees ==
    [fastestFee |-> Sat(7), halfHourFee |-> Sat(6), hourFee |-> Sat(4),
     economy_fee |-> Sat(3), minimumFee |-> Sat(2)]
UpstreamFees ==
    [fastestFee |-> Sat(7), halfHourFee |-> Sat(6), hourFee |-> Sat(4),
     economyFee |-> Sat(3), minimumFee |-> Sat(2)]
Restrict(d, K) == [k \in K |-> d[k]]
Snapshots ==
    {Restrict(HighFees, {}), HighFees, LowFees, UpstreamFees,
     Restrict(HighFees, {"hourFee"}),
     Restrict(HighFees, {"economy_fee", "halfHourFee"}),
     Restrict(LowFees, {"fastestFee", "minimumFee"})}
SnapshotArgs == {None} \cup {Some(d) : d \in Snapshots}

\* ----------------------------------------------------- fee engine: actions
\* The dispatcher, the streaming client and the estimator take no part.
FOthersIdle == da = <<>> /\ da_call = <<>> /\ HIdle /\ DIdle /\ WIdle

\* fees = RecommendedFees(recommended_fees=s, mempool_blocks_fee=l)
FStart(s, l) ==
    /\ rfees = RecommendedFees(s, l)
    /\ fee_call = [op |-> "__init__", recommended_fees |-> s, mempool_blocks_fee |-> l]
    /\ FOthersIdle

\* fees.update_recommended_fees(s)
UpdateRecommendedFees(s) ==
    /\ rfees' = update_recommended_fees(rfees, s)
    /\ fee_call' = [op |-> "update_recommended_fees", arg |-> s]
    /\ UNCHANGED <<da, da_call, halving, halving_call, dvars, wvars>>

\* fees.update_mempool_blocks(l); the record of the call keeps the three
\* median fees _calculate_median_fees returned (<<>> for a rejected call).
UpdateMempoolBlocks(l) ==
    /\ LET r == update_mempool_blocks(rfees, l)
       IN /\ rfees' = r.self
          /\ fee_call' = [op |-> "update_mempool_blocks", arg |-> l, ret |-> r.ret,
                           medians |-> r.medians]
    /\ UNCHANGED <<da, da_call, halving, halving_call, dvars, wvars>>

\* fees.build_fee_array()
BuildFeeArray ==
    /\ LET r == build_fee_array(rfees)
       IN /\ rfees' = r.self
          /\ fee_call' = [op |-> "build_fee_array",
                          ret |-> <<r.min_fees, r.median_fees, r.max_fees>>]
    /\ UNCHANGED <<da, da_call, halving, halving_call, dvars, wvars>>

\* fees.optimize_median_fee(p, n, f)
OptimizeMedianFee(p, n, f) ==
    /\ fee_call' = [op |-> "optimize_median_fee", p_block |-> p, next_block |-> n,
                    previous_fee |-> f, ret |-> optimize_median_fee(rfees, p, n, f)]
    /\ UNCHANGED <<rfees, da, da_call, halving, halving_call, dvars, wvars>>

\* Single calls on a fresh instance, on every list of up to MaxProjections
\* projections: one update_mempool_blocks and then build_fee_array, or one
\* optimize_median_fee.
CalcInit == FStart(None, None)
CalcNext ==
    \/ /\ fee_call.op = "__init__"
       /\ \E l \in ListArgs(Projections, MaxProjections) : UpdateMempoolBlocks(l)
    \/ /\ fee_call.op = "update_mempool_blocks"
       /\ BuildFeeArray
    \/ /\ fee_call.op = "__init__"
       /\ \E p \in OptBlocks : \E n \in OptNext : \E f \in OptPrevious :
              OptimizeMedianFee(p, n, f)
SpecFeeCalc == CalcInit /\ [][CalcNext]_vars

\* Every sequence of calls on an instance constructed with any arguments.
SeqInit ==
    \E s \in SnapshotArgs : \E l \in ListArgs(SeqProjections, MaxSeqProjections) :
        FStart(s, l)
SeqNext ==
    \/ \E s \in SnapshotArgs : UpdateRecommendedFees(s)
    \/ \E l \in ListArgs(SeqProjections, MaxSeqProjections) : UpdateMempoolBlocks(l)
    \/ BuildFeeArray
SpecFees == SeqInit /\ [][SeqNext]_vars

\* ============================================================= estimator
\* JSON values of a snapshot: a number n is Some(n), null is None.
\* dict.get(key, default)
JGetNoDefault(d, key, default) == IF key \in DOMAIN d THEN d[key] ELSE None
JGet(d, key, default) == IF key \in DOMAIN d THEN d[key] ELSE default

\* A datetime, held as the instant it names: the day since the epoch and the
\* millisecond of that day.
\* datetime.fromtimestamp(estimated_retarget_ts / 1000)
FromTimestampMs(ts) == [day |-> ts \div 86400000, ms |-> ts % 86400000]

\* utils.time_until(target_datetime) when datetime.now() is `now`: the text is
\* "<days> days <hours> hours <minutes> minutes", with " ago" for a past
\* target; held as the numbers it prints.
time_until(target_datetime, now) ==
    LET past == \/ target_datetime.day < now.day
                \/ target_datetime.day = now.day /\ target_datetime.ms < now.ms
        later == IF past THEN now ELSE target_datetime
        earlier == IF past THEN target_datetime ELSE now
        borrow == IF later.ms < earlier.ms THEN 1 ELSE 0
        days == later.day - earlier.day - borrow
        seconds == (later.ms - earlier.ms + borrow * 86400000) \div 1000
    IN [text |-> "countdown", days |-> days, hours |-> seconds \div 3600,
        minutes |-> (seconds % 3600) \div 60, ago |-> past]
Unknown == [text |-> "Unknown"]

\* The float time_avg / 60000, kept exact as its operands.
Ratio(num, den) == [num |-> num, den |-> den]

\* self.last_retarget = lastblocknum - 2016 + remaining_blocks
LastRetargetMinus(lastblocknum, remaining_blocks) ==
    lastblocknum - 2016 - remaining_blocks
LastRetarget(lastblocknum, remaining_blocks) ==
    lastblocknum - 2016 + remaining_blocks

\* An instance before __init__ assigned any attribute.
BlankDifficultyAdjustment ==
    [lastblocknum |-> None, difficulty_adjustment |-> None, last_retarget |-> None,
     minutes_between_blocks |-> None, found_blocks |-> None, blocks_behind |-> None,
     estimated_retarget_date |-> None, estimated_retarget_period |-> None]

\* update_difficulty_adjustment, statement by statement: the object as the
\* call leaves it and the exception it raised, if any (arithmetic on a null
\* value raises TypeError and leaves the later attributes as they were).
update_difficulty_adjustment(self, lastblocknum, difficulty_adjustment, now) ==
    LET d == difficulty_adjustment
        remaining_blocks == JGet(d, "remainingBlocks", Some(0))
        estimated_retarget_ts == JGet(d, "estimatedRetargetDate", None)
        expected_blocks == JGet(d, "expectedBlocks", Some(0))
        time_avg == JGet(d, "timeAvg", Some(600000))
        s0 == [self EXCEPT !.lastblocknum = Some(lastblocknum),
                           !.difficulty_adjustment = Some(d)]
    IN IF IsNone(remaining_blocks) THEN [self |-> s0, raised |-> "TypeError"]
       ELSE
       LET last_retarget == LastRetarget(lastblocknum, Get(remaining_blocks))
           found_blocks == lastblocknum - last_retarget
           date == IF ~IsNone(estimated_retarget_ts)
                   THEN Some(FromTimestampMs(Get(estimated_retarget_ts)))
                   ELSE None
           s1 == [s0 EXCEPT
                    !.last_retarget = Some(last_retarget),
                    !.found_blocks = Some(found_blocks),
                    !.estimated_retarget_date = Some(date),
                    !.estimated_retarget_period =
                        Some(IF ~IsNone(date) THEN time_until(Get(date), now)
                             ELSE Unknown)]
       IN IF IsNone(expected_blocks) THEN [self |-> s1, raised |-> "TypeError"]
          ELSE
          LET s2 == [s1 EXCEPT !.blocks_behind =
                                   Some(Get(expected_blocks) - found_blocks)]
          IN IF IsNone(time_avg) THEN [self |-> s2, raised |-> "TypeError"]
             ELSE [self |-> [s2 EXCEPT !.minutes_between_blocks =
                                           Some(Ratio(Get(time_avg), 60000))],
                   raised |-> "none"]

\* ------------------------------------------------------- estimator: inputs
Heights == {100, 840000}
\* datetime.now() at the time of a call: before and after RetargetMs
Clocks == {FromTimestampMs(100000000), FromTimestampMs(300000000)}
DifficultyKeys == {"remainingBlocks", "estimatedRetargetDate", "expectedBlocks", "timeAvg"}
\* Snapshot values: mid-period, and an overdue retarget with a null date and
\* a zero block time.
MidPeriod ==
    [remainingBlocks |-> Some(1000), estimatedRetargetDate |-> Some(193861000),
     expectedBlocks |-> Some(1020), timeAvg |-> Some(540000)]
Overdue ==
    [remainingBlocks |-> Some(0 - 3), estimatedRetargetDate |-> None,
     expectedBlocks |-> Some(0), timeAvg |-> Some(0)]
AtRetarget == [MidPeriod EXCEPT !.remainingBlocks = Some(0)]
NullRemaining == [MidPeriod EXCEPT !.remainingBlocks = None]
\* Every subset of the keys may be absent.
DifficultySnapshots ==
    {Restrict(v, K) : K \in SUBSET DifficultyKeys, v \in {MidPeriod, Overdue}}
        \cup {AtRetarget, NullRemaining}

\* ------------------------------------------------------ estimator: actions
\* The dispatcher, the streaming client and the fee engine take no part.
AOthersIdle == rfees = <<>> /\ fee_call = <<>> /\ HIdle /\ DIdle /\ WIdle

\* DifficultyAdjustment(h, s), for the arguments with which it returns
AStart(h, s, now) ==
    LET r == update_difficulty_adjustment(BlankDifficultyAdjustment, h, s, now)
    IN /\ r.raised = "none"
       /\ da = r.self
       /\ da_call = [op |-> "__init__", lastblocknum |-> h,
                     difficulty_adjustment |-> s, now |-> now, raised |-> r.raised]
       /\ AOthersIdle

\* da.update_difficulty_adjustment(h, s)
UpdateDifficultyAdjustment(h, s, now) ==
    LET r == update_difficulty_adjustment(da, h, s, now)
    IN /\ da' = r.self
       /\ da_call' = [op |-> "update_difficulty_adjustment", lastblocknum |-> h,
                      difficulty_adjustment |-> s, now |-> now, raised |-> r.raised]
       /\ UNCHANGED <<rfees, fee_call, halving, halving_call, dvars, wvars>>

AInit ==
    \E h \in Heights : \E s \in DifficultySnapshots : \E now \in Clocks :
        AStart(h, s, now)
ANext ==
    \E h \in Heights : \E s \in DifficultySnapshots : \E now \in Clocks :
        UpdateDifficultyAdjustment(h, s, now)
SpecDifficulty == AInit /\ [][ANext]_vars

\* =============================================================== halving
INITIAL_REWARD == 50
HALVING_INTERVAL == 210000
\* datetime.max is 9999-12-31: its day since the epoch.  A datetime past it
\* cannot be built (OverflowError: date value out of range).
DatetimeMaxDay == 2932896

\* self.current_halving = self.current_height // self.HALVING_INTERVAL
CurrentHalvingCeil(current_height) ==
    (current_height + HALVING_INTERVAL - 1) \div HALVING_INTERVAL
CurrentHalving(current_height) == current_height \div HALVING_INTERVAL

\* mins_remaining = blocks_remaining * avg_block_time_mins, for a block time
\* of whole minutes (time_avg.num a multiple of time_avg.den): the product,
\* held as whole days and the minutes left over.
MinsRemaining(blocks_remaining, avg_block_time_mins) ==
    LET avg == avg_block_time_mins.num \div avg_block_time_mins.den
        whole == blocks_remaining * (avg \div 1440)
        rest == blocks_remaining * (avg % 1440)
    IN [days |-> whole + rest \div 1440, minutes |-> rest % 1440]

\* datetime.datetime.now() + datetime.timedelta(minutes=mins_remaining)
PlusMinutes(now, mins_remaining) ==
    LET ms == now.ms + mins_remaining.minutes * 60000
    IN [day |-> now.day + mins_remaining.days + ms \div 86400000,
        ms |-> ms % 86400000]
\* datetime.now() read again `lag` milliseconds after `now`
Later(now, lag) ==
    [day |-> now.day + (now.ms + lag) \div 86400000,
     ms |-> (now.ms + lag) % 86400000]

\* An instance before __init__ assigned any attribute.
BlankHalving ==
    [current_height |-> None, difficulty_adjustment |-> None,
     current_halving |-> None, next_halving_height |-> None,
     blocks_remaining |-> None, current_reward |-> None, next_reward |-> None,
     estimated_date |-> None, estimated_days |-> None,
     estimated_time_until |-> None]

\* _calculate_time_estimates, statement by statement, when datetime.now()
\* reads `now` in this method and `lag` milliseconds later in time_until: the
\* object as the call leaves it and the exception it raised, if any.
calculate_time_estimates(self, now, lag) ==
    LET r == update_difficulty_adjustment(BlankDifficultyAdjustment,
                 Get(self.current_height), Get(Get(self.difficulty_adjustment)), now)
    IN IF r.raised # "none" THEN [self |-> self, raised |-> r.raised]
       ELSE
       LET avg_block_time_mins == Get(r.self.minutes_between_blocks)
       IN IF avg_block_time_mins.num > 0
          THEN
          LET mins_remaining ==
                  MinsRemaining(Get(self.blocks_remaining), avg_block_time_mins)
              s1 == [self EXCEPT !.estimated_days = Some(mins_remaining)]
              date == PlusMinutes(now, mins_remaining)
          IN IF date.day > DatetimeMaxDay
             THEN [self |-> s1, raised |-> "OverflowError"]
             ELSE [self |-> [s1 EXCEPT
                               !.estimated_date = Some(date),
                               !.estimated_time_until =
                                   Some(time_until(date, Later(now, lag)))],
                   raised |-> "none"]
          ELSE [self |-> self, raised |-> "none"]

\* Halving.__init__(current_height, difficulty_adjustment) on the object
\* `self`; difficulty_adjustment is None or Some(snapshot).  The rewards are
\* the floats 50.0 / 2**k and half of that, kept exact as their operands.
Halving__init__(self, current_height, difficulty_adjustment, now, lag) ==
    LET current_halving == CurrentHalving(current_height)
        next_halving_height == (current_halving + 1) * HALVING_INTERVAL
        current_reward == Ratio(INITIAL_REWARD, 2 ^ current_halving)
        s0 == [self EXCEPT
                 !.current_height = Some(current_height),
                 !.difficulty_adjustment = Some(difficulty_adjustment),
                 !.current_halving = Some(current_halving),
                 !.next_halving_height = Some(next_halving_height),
                 !.blocks_remaining = Some(next_halving_height - current_height),
                 !.current_reward = Some(current_reward),
                 !.next_reward =
                     Some(Ratio(current_reward.num, current_reward.den * 2)),
                 !.estimated_date = Some(Unknown),
                 !.estimated_days = Some(Unknown),
                 !.estimated_time_until = Some(Unknown)]
    IN IF ~IsNone(difficulty_adjustment)
       THEN calculate_time_estimates(s0, now, lag)
       ELSE [self |-> s0, raised |-> "none"]

\* --------------------------------------------------------- halving: inputs
\* the genesis block, the last block of a period, mid-period, a halving block
HalvingHeights == {0, 209999, 735000, 840000}
\* datetime.now(): 2026-11-01 10:00, and the last millisecond of the next day
HalvingClocks == {[day |-> 20758, ms |-> 36000000], [day |-> 20759, ms |-> 86399999]}
\* milliseconds between the two readings of the clock
HalvingLags == {0, 1}
\* a chain with a block every 20000 minutes, and a negative average
SlowChain == [timeAvg |-> Some(1200000000)]
NegativeAvg == [timeAvg |-> Some(0 - 60000)]
HalvingSnapshots ==
    {None} \cup {Some(s) : s \in DifficultySnapshots \cup {SlowChain, NegativeAvg}}

\* -------------------------------------------------------- halving: actions
HOthersIdle ==
    rfees = <<>> /\ fee_call = <<>> /\ da = <<>> /\ da_call = <<>> /\ DIdle /\ WIdle

\* Halving(h, s), for the arguments with which it returns
HStart(h, s, now, lag) ==
    LET r == Halving__init__(BlankHalving, h, s, now, lag)
    IN /\ r.raised = "none"
       /\ halving = r.self
       /\ halving_call = [op |-> "__init__", current_height |-> h,
                          difficulty_adjustment |-> s, now |-> now, lag |-> lag,
                          raised |-> r.raised]
       /\ HOthersIdle

\* halving.update(h, s): self.__init__(current_height, difficulty_adjustment)
HalvingUpdateKeepsEstimates(h, s, now, lag) ==
    LET r == Halving__init__(halving, h, s, now, lag)
    IN /\ halving' = IF IsNone(s)
                     THEN [r.self EXCEPT
                             !.estimated_date = halving.estimated_date,
                             !.estimated_days = halving.estimated_days,
                             !.estimated_time_until = halving.estimated_time_until]
                     ELSE r.self
       /\ halving_call' = [op |-> "update", current_height |-> h,
                           difficulty_adjustment |-> s, now |-> now, lag |-> lag,
                           raised |-> r.raised]
       /\ UNCHANGED <<rfees, fee_call, da, da_call, dvars, wvars>>
HalvingUpdate(h, s, now, lag) ==
    LET r == Halving__init__(halving, h, s, now, lag)
    IN /\ halving' = r.self
       /\ halving_call' = [op |-> "update", current_height |-> h,
                           difficulty_adjustment |-> s, now |-> now, lag |-> lag,
                           raised |-> r.raised]
       /\ UNCHANGED <<rfees, fee_call, da, da_call, dvars, wvars>>

HInit ==
    \E h \in HalvingHeights : \E s \in HalvingSnapshots :
    \E now \in HalvingClocks : \E lag \in HalvingLags : HStart(h, s, now, lag)
HNext ==
    \E h \in HalvingHeights : \E s \in HalvingSnapshots :
    \E now \in HalvingClocks : \E lag \in HalvingLags : HalvingUpdate(h, s, now, lag)
SpecHalving == HInit /\ [][HNext]_vars

\* Either estimator, constructed with any arguments and then updated with
\* any sequence of arguments.
EInit == AInit \/ HInit
ENext ==
    \/ /\ da # <<>>
       /\ ANext
    \/ /\ halving # <<>>
       /\ HNext
SpecEstimators == EInit /\ [][ENext]_vars

\* ------------------------------------------------------ dispatcher: claims
Done == dpc = "done"
\* positions of `contacts` that are exchanges with endpoint i
ContactsAt(i) == {k \in 1..Len(contacts) : contacts[k].ep = i}
IsResponseFailure(a) ==
    a.outcome.kind = "raise" /\ a.outcome.error.type = "MempoolResponseError"

\* C1: endpoints are tried in list order from index 0, each at most once by
\* the dispatcher, at most n dispatcher-level attempts are made, the call
\* never gets stuck, and once an endpoint has answered with success (a 2xx
\* response) no later exchange takes place and its payload is what the call
\* returns.
C1_InOrderFirstSuccessReturned ==
    /\ Len(attempts) <= Len(api_base_url)
    /\ \A k \in 1..Len(attempts) : attempts[k].ep = k - 1
    /\ contacts # <<>> => contacts[1].ep = 0
    /\ \A k \in 1..(Len(contacts) - 1) :
          contacts[k + 1].ep \in {contacts[k].ep, contacts[k].ep + 1}
    /\ \A k \in 1..Len(contacts) :
          contacts[k].st = "2xx" =>
              /\ k = Len(contacts)
              /\ Done => result.kind = "return" /\ result.ep = contacts[k].ep
    /\ Done \/ ENABLED DNext

C4_Non2xxIsResponseFailure ==
    method = "GET" =>
        \A k \in 1..Len(attempts) :
            LET last == CHOOSE c \in ContactsAt(k - 1) :
                            \A d \in ContactsAt(k - 1) : d <= c
            IN contacts[last].st \in {"4xx", "503"} =>
                 /\ IsResponseFailure(attempts[k])
                 /\ attempts[k].outcome.error.content \in {"body", "status"}
                 /\ index >= k

AllTransient(i) == \A k \in ContactsAt(i) : contacts[k].st = "503"

\* C5: an endpoint is contacted only after the previous endpoint's session
\* call is over, and an https endpoint that answered 503 to every GET exchange
\* was contacted retries + 1 times before that; with [A, B], A answering 503
\* throughout (possibly unreachable at the end) and B answering 200 with a
\* JSON body, the call returns B's parsed body.
C5_RetriesBeforeFailover ==
    method = "GET" =>
        /\ \A k \in 1..Len(contacts) :
              LET j == contacts[k].ep
              IN j > 0 =>
                   /\ Len(attempts) >= j
                   /\ (api_base_url[j] = "https" /\ AllTransient(j - 1)) =>
                          Cardinality(ContactsAt(j - 1)) = retries + 1
        /\ ( /\ Done /\ Len(api_base_url) = 2 /\ Len(attempts) = 2
             /\ \A k \in ContactsAt(0) : contacts[k].st \in {"503", "connect_error"}
             /\ attempts[2].resp = [kind |-> "response", status |-> "2xx"]
             /\ attempts[2].body = "json" )
           => result = [kind |-> "return", ep |-> 1, payload |-> "parsed"]

\* C5 witness: A (https) answered 503 three times (retries = 2), B answered
\* 200 with JSON, and the call returned B's body.
C5_Witness ==
    /\ method = "GET" /\ Done /\ retries = 2
    /\ api_base_url[1] = "https" /\ Len(api_base_url) = 2
    /\ AllTransient(0) /\ Cardinality(ContactsAt(0)) = 3
    /\ result = [kind |-> "return", ep |-> 1, payload |-> "parsed"]

\* ------------------------------------------------ streaming client: claims
\* the messages sent on connection c, in the order sent
MsgsOf(c) ==
    LET of == SelectSeq(outbound, LAMBDA o : o.conn = c)
    IN [i \in 1..Len(of) |-> of[i].msg]
IsPrefix(s, t) == Len(s) <= Len(t) /\ s = SubSeq(t, 1, Len(s))
Connected == wstate \in {"Streaming", "Handling"}

\* C6: with max_retries = N the (N+1)-th consecutive transport-level failure
\* stops the client without a sleep; every earlier failure starts one backoff
\* sleep, whose only continuation is Connecting, whose only continuation is a
\* connection attempt; and nothing at all happens once the client is Stopped.
C6_StoppedAfterBudgetIsTerminal ==
    /\ [](exit_cause = "max_retries" =>
              wstate = "Stopped" /\ retry_count = client.max_retries + 1)
    /\ [][retry_count' = retry_count + 1 =>
              IF retry_count = client.max_retries
              THEN wstate' = "Stopped" /\ exit_cause' = "max_retries"
              ELSE retry_count < client.max_retries /\ wstate' = "Backoff"]_vars
    /\ [][wstate = "Backoff" =>
              /\ wstate' = "Connecting"
              /\ UNCHANGED <<retry_count, conn, outbound, inbound, delivered>>]_vars
    /\ [][wstate = "Connecting" =>
              \/ conn' = conn + 1 /\ retry_count' = 0
              \/ conn' = conn /\ retry_count' = retry_count + 1]_vars
    /\ [][wstate # "Stopped"]_vars

\* C6 witness: a client with max_retries >= 2 stopped by its retry budget.
C6_Witness ==
    /\ wstate = "Stopped" /\ exit_cause = "max_retries"
    /\ client.max_retries >= 2 /\ retry_count = client.max_retries + 1

\* C7: whenever the client is streaming on a connection, the messages sent on
\* that connection are exactly the configured subscription messages, each once;
\* no connection ever receives a message twice; a message is read only after
\* they were all sent; and messages are sent only on an open connection.
C7_SubscribedOncePerConnection ==
    /\ [](Connected => MsgsOf(conn) = SubscriptionMessages(client))
    /\ [](\A c \in 1..conn : IsPrefix(MsgsOf(c), SubscriptionMessages(client)))
    /\ [](\A i \in 1..Len(outbound) : outbound[i].conn \in 1..conn)
    /\ [][inbound' # inbound =>
              /\ MsgsOf(conn) = SubscriptionMessages(client)
              /\ outbound' = outbound /\ conn' = conn]_vars
    /\ [][outbound' # outbound => wstate = "Subscribing" /\ conn' = conn]_vars

\* C7 witness: the first three connection attempts failed, the fourth opened
\* connection 1, and the client streams having sent each message once.
C7_Witness ==
    /\ wstate = "Streaming" /\ conn = 1 /\ fails_before = 3
    /\ Len(SubscriptionMessages(client)) >= 2
    /\ [i \in 1..Len(outbound) |-> outbound[i].msg] = SubscriptionMessages(client)

\* The fixed order of the categories.
CategoryOrder ==
    <<"want", "track-address", "track-addresses", "track-mempool",
      "track-mempool-txids", "track-mempool-block", "track-rbf">>
\* The categories the caller configured: a non-empty list or string, a true
\* flag, any block index (0 included), a track_rbf of "all" or "fullRbf".
ConfiguredByCaller(a) ==
    {c \in {"want"} : ~IsNone(a.want_data) /\ Get(a.want_data) # <<>>}
    \cup {c \in {"track-address"} :
            ~IsNone(a.track_address) /\ Get(a.track_address) # ""}
    \cup {c \in {"track-addresses"} :
            ~IsNone(a.track_addresses) /\ Get(a.track_addresses) # <<>>}
    \cup {c \in {"track-mempool"} : a.track_mempool}
    \cup {c \in {"track-mempool-txids"} : a.track_mempool_txids}
    \cup {c \in {"track-mempool-block"} : ~IsNone(a.track_mempool_block_index)}
    \cup {c \in {"track-rbf"} :
            ~IsNone(a.track_rbf) /\ Get(a.track_rbf) \in {"all", "fullRbf"}}
InOrder(S) == SelectSeq(CategoryOrder, LAMBDA c : c \in S)
KeysSent == [i \in 1..Len(outbound) |-> Key(outbound[i].msg)]

\* C8 as stated: after the Subscribing step the keys of the messages sent are
\* exactly the categories the caller configured, in the fixed order.
C8_OnlyConfiguredCategories ==
    wstate = "Streaming" => KeysSent = InOrder(ConfiguredByCaller(args))

\* C8 as amended: the want message is always sent, with the caller's list when
\* that is non-empty and with the default ["mempool-blocks", "stats"] when
\* want_data is None or empty; the other six categories are sent exactly when
\* configured, each carrying the caller's value, all in the fixed order.
C8_WantAlwaysOthersWhenConfigured ==
    wstate = "Streaming" =>
        /\ KeysSent = InOrder(ConfiguredByCaller(args) \cup {"want"})
        /\ \A i \in 1..Len(outbound) :
             LET m == outbound[i].msg
             IN CASE Key(m) = "want" ->
                       Data(m) = IF "want" \in ConfiguredByCaller(args)
                                 THEN Get(args.want_data)
                                 ELSE <<"mempool-blocks", "stats">>
                  [] Key(m) = "track-address" -> Data(m) = Get(args.track_address)
                  [] Key(m) = "track-addresses" -> Data(m) = Get(args.track_addresses)
                  [] Key(m) = "track-mempool" -> Data(m) = TRUE
                  [] Key(m) = "track-mempool-txids" -> Data(m) = TRUE
                  [] Key(m) = "track-mempool-block" ->
                       Data(m) = Get(args.track_mempool_block_index)
                  [] Key(m) = "track-rbf" -> Data(m) = Get(args.track_rbf)

\* C8 witness: want_data omitted, block index 0 and an unknown track_rbf:
\* the default want message and the block-index message were sent.
C8_Witness ==
    /\ wstate = "Streaming"
    /\ IsNone(args.want_data)
    /\ args.track_mempool_block_index = Some(0)
    /\ args.track_rbf = Some("other")
    /\ KeysSent = <<"want", "track-mempool-block">>

\* the ids of the messages read that parsed as JSON, in arrival order
JsonIds ==
    LET js == SelectSeq(inbound, LAMBDA m : m.kind = "json")
    IN [i \in 1..Len(js) |-> js[i].id]
DeliveredIds == [i \in 1..Len(delivered) |-> delivered[i].id]

\* C11: an exception of the message handler that is none of the transport
\* errors connect() retries stops the client at once: the step that ends the
\* handler leads to Stopped with the retry counter untouched, never to a
\* backoff sleep.  (The step after Stopped does not exist: C6.)
C11_UnclassifiedHandlerErrorStops ==
    [][(completed' = completed + 1 /\ handler_end' \notin {"returns", "OSError"})
         => (wstate' = "Stopped" /\ exit_cause' = "unexpected"
             /\ retry_count' = retry_count /\ conn' = conn)]_vars

\* C9: reading a message that fails JSON parsing leaves the client streaming
\* on the same connection with the retry counter and the deliveries
\* unchanged, and every well-formed message read is delivered.
C9_MalformedNeverTerminates ==
    /\ [][(Len(inbound') = Len(inbound) + 1
           /\ inbound'[Len(inbound')].kind # "json") =>
              /\ wstate' = "Streaming" /\ conn' = conn
              /\ retry_count' = retry_count /\ delivered' = delivered]_vars
    /\ [](DeliveredIds = JsonIds)

\* C10: the deliveries are exactly the JSON messages read, each once and in
\* arrival order, all to one sink: the queue in queue mode (the handler is
\* never invoked), the handler otherwise, and then every invocation but the
\* one in progress has ended, the one in progress being the last message read.
C10_DeliveredOnceInOrder ==
    /\ DeliveredIds = JsonIds
    /\ \A i \in 1..Len(delivered) :
          delivered[i].sink = IF use_queue THEN "queue" ELSE "handler"
    /\ use_queue => completed = 0 /\ wstate # "Handling"
    /\ ~use_queue =>
          completed = Len(delivered) - (IF wstate = "Handling" THEN 1 ELSE 0)
    /\ wstate = "Handling" =>
          delivered[Len(delivered)].id = inbound[Len(inbound)].id

\* C10 witness: two messages handled to completion by the handler.
C10_Witness ==
    /\ ~use_queue /\ wstate = "Streaming"
    /\ Len(delivered) = 2 /\ completed = 2
    /\ delivered[1].id < delivered[2].id

\* ------------------------------------------------------ fee engine: claims
FeeOp(op) == fee_call.op = op
AllFeesSet(f) ==
    /\ ~IsNone(f.fastest_fee) /\ ~IsNone(f.half_hour_fee) /\ ~IsNone(f.hour_fee)
    /\ ~IsNone(f.economy_fee) /\ ~IsNone(f.minimum_fee)
FeesOrdered(f) ==
    /\ Get(f.fastest_fee) >= Get(f.half_hour_fee)
    /\ Get(f.half_hour_fee) >= Get(f.hour_fee)
    /\ Get(f.hour_fee) >= Get(f.economy_fee)
    /\ Get(f.economy_fee) >= Get(f.minimum_fee)
UpdatedFromList == FeeOp("update_mempool_blocks") /\ fee_call.ret

\* C12: after every update_mempool_blocks call with a non-empty projection
\* list, fastest >= half-hour >= hour >= economy >= minimum, and
\* minimum <= economy <= 2 * minimum.
C12_OrderedAfterMempoolUpdate ==
    UpdatedFromList =>
        /\ AllFeesSet(rfees)
        /\ FeesOrdered(rfees)
        /\ Get(rfees.minimum_fee) <= Get(rfees.economy_fee)
        /\ Get(rfees.economy_fee) <= 2 * Get(rfees.minimum_fee)

\* C12 witness: a list whose second tier is above its first and above the
\* floor, and whose floor is above the default fee.
C12_Witness ==
    /\ UpdatedFromList
    /\ LET m == calculate_median_fees(rfees, Get(fee_call.arg))
       IN m[2] > m[1] /\ m[1] > Get(rfees.minimum_fee)
    /\ Get(rfees.minimum_fee) > DEFAULT_FEE

\* C13: in every state of an instance in which all five fees are set, after
\* any sequence of update_recommended_fees and update_mempool_blocks calls,
\* fastest >= half-hour >= hour >= economy >= minimum.
C13_OrderedAfterAnyUpdate ==
    AllFeesSet(rfees) => FeesOrdered(rfees)

\* The snapshot key update_recommended_fees reads for each fee field.
FeeKey ==
    [hour_fee |-> "hourFee", half_hour_fee |-> "halfHourFee",
     fastest_fee |-> "fastestFee", economy_fee |-> "economy_fee",
     minimum_fee |-> "minimumFee"]
FeeFields == DOMAIN FeeKey
AggregateFields ==
    {"mempool_blocks_fee", "mempool_vsize", "mempool_size_mb", "mempool_size_gb",
     "mempool_tx_count", "mempool_blocks"}

\* C14: update_recommended_fees changes nothing when the snapshot is None or
\* empty; otherwise each fee field whose key is in the snapshot takes the
\* snapshot's value and each fee field whose key is absent keeps its value;
\* the stored projection list and the mempool aggregates are never changed.
C14_RecommendedFeesPartialOverwrite ==
    [][fee_call'.op = "update_recommended_fees" =>
         LET s == fee_call'.arg
         IN /\ \A a \in AggregateFields : rfees'[a] = rfees[a]
            /\ (IsNone(s) \/ DOMAIN Get(s) = {}) => rfees' = rfees
            /\ ~IsNone(s) =>
                  \A f \in FeeFields :
                      IF FeeKey[f] \in DOMAIN Get(s)
                      THEN rfees'[f] = Some(Get(s)[FeeKey[f]])
                      ELSE rfees'[f] = rfees[f]]_vars

\* C14 witness: a snapshot holding hourFee alone, applied to an instance whose
\* fees came from a projection list.
C14_Witness ==
    /\ FeeOp("update_recommended_fees")
    /\ fee_call.arg = Some(Restrict(HighFees, {"hourFee"}))
    /\ rfees.hour_fee = Some(HighFees.hourFee)
    /\ ~IsNone(rfees.mempool_blocks_fee)
    /\ ~IsNone(rfees.fastest_fee) /\ rfees.fastest_fee # Some(HighFees.fastestFee)

\* C15: update_mempool_blocks called with None or an empty list returns False
\* and leaves every field of the instance as it was, whatever state it is in.
C15_EmptyUpdateChangesNothing ==
    [][(/\ fee_call'.op = "update_mempool_blocks"
        /\ (IsNone(fee_call'.arg) \/ Get(fee_call'.arg) = <<>>))
         => (fee_call'.ret = FALSE /\ rfees' = rfees)]_vars

\* C15 witness: an empty list given to an instance that holds a projection
\* list and five fees from earlier updates.
C15_Witness ==
    /\ FeeOp("update_mempool_blocks")
    /\ fee_call.arg = Some(<<>>)
    /\ fee_call.ret = FALSE
    /\ ~IsNone(rfees.mempool_blocks_fee)
    /\ AllFeesSet(rfees)
    /\ rfees.mempool_vsize > 0

\* C16: optimize_median_fee returns default_fee for a block of at most 500000
\* vbytes; for a block above 500000 and at most 950000 vbytes with no next
\* block, the larger of default_fee and blended * (blockVSize - 500000) /
\* 500000; and blended in every other case, where blended is the mean of
\* medianFee and the previous fee when one is given and medianFee otherwise.
C16_OptimizeMedianFeeRule ==
    FeeOp("optimize_median_fee") =>
        LET v == fee_call.p_block.blockVSize
            m == fee_call.p_block.medianFee
            blended == IF IsNone(fee_call.previous_fee) THEN m
                       ELSE (m + Get(fee_call.previous_fee)) \div 2
            scaled == (blended * (v - SMALL_BLOCK_SIZE)) \div SMALL_BLOCK_SIZE
        IN /\ v <= SMALL_BLOCK_SIZE => fee_call.ret = DEFAULT_FEE
           /\ (v > SMALL_BLOCK_SIZE /\ v <= MEDIUM_BLOCK_SIZE
                  /\ IsNone(fee_call.next_block)) =>
                 /\ fee_call.ret >= scaled /\ fee_call.ret >= DEFAULT_FEE
                 /\ fee_call.ret \in {scaled, DEFAULT_FEE}
           /\ (v > MEDIUM_BLOCK_SIZE
                  \/ (v > SMALL_BLOCK_SIZE /\ ~IsNone(fee_call.next_block))) =>
                 fee_call.ret = blended

\* C16 witness: blockVSize 800000, medianFee 8.0, no next block, no previous
\* fee: the call returns 4.8.
C16_Witness ==
    /\ FeeOp("optimize_median_fee")
    /\ fee_call.p_block.blockVSize = 800000
    /\ fee_call.p_block.medianFee = Sat(8)
    /\ IsNone(fee_call.next_block) /\ IsNone(fee_call.previous_fee)
    /\ 10 * fee_call.ret = Sat(48)

SeqMin(s) == CHOOSE x \in {s[i] : i \in DOMAIN s} : \A j \in DOMAIN s : x <= s[j]
SeqMax(s) == CHOOSE x \in {s[i] : i \in DOMAIN s} : \A j \in DOMAIN s : x >= s[j]
\* slot i (from 1) of the three lists build_fee_array returned
Slot(ret, i) == <<ret[1][i], ret[2][i], ret[3][i]>>

\* C17: build_fee_array returns three lists of n_fee_blocks entries; slot i is
\* (min, median, max) of the feeRange of projection i, or of the last stored
\* projection when there is no projection i; with no projections stored every
\* slot is (default_fee, default_fee, default_fee).
C17_FeeArrayMinMedianMax ==
    FeeOp("build_fee_array") =>
        /\ \A k \in 1..3 : Len(fee_call.ret[k]) = DEFAULT_FEE_BLOCKS
        /\ \A i \in 1..DEFAULT_FEE_BLOCKS :
              IF Falsy(rfees.mempool_blocks_fee)
              THEN Slot(fee_call.ret, i) = <<DEFAULT_FEE, DEFAULT_FEE, DEFAULT_FEE>>
              ELSE LET b == Get(rfees.mempool_blocks_fee)
                       r == b[Min2(i, Len(b))].feeRange
                   IN Slot(fee_call.ret, i) = <<SeqMin(r), median(r).ret, SeqMax(r)>>

RECURSIVE SumVSize(_)
SumVSize(b) == IF b = <<>> THEN 0 ELSE b[1].blockVSize + SumVSize(Tail(b))
RECURSIVE SumTx(_)
SumTx(b) == IF b = <<>> THEN 0 ELSE b[1].nTx + SumTx(Tail(b))

\* C18: after a successful update_mempool_blocks, mempool_vsize is the sum of
\* blockVSize and mempool_tx_count the sum of nTx over the whole list, and
\* mempool_blocks is the least integer n with n * 1,000,000 >= mempool_vsize.
C18_AggregatesRecomputed ==
    UpdatedFromList =>
        LET b == Get(fee_call.arg)
        IN /\ rfees.mempool_vsize = SumVSize(b)
           /\ rfees.mempool_tx_count = SumTx(b)
           /\ rfees.mempool_blocks * BLOCK_SIZE_DIVISOR >= rfees.mempool_vsize
           /\ (rfees.mempool_blocks - 1) * BLOCK_SIZE_DIVISOR < rfees.mempool_vsize

\* C18 witness: three projections whose total is exactly 2,000,000 vbytes.
C18_Witness ==
    /\ UpdatedFromList
    /\ Len(Get(fee_call.arg)) = 3
    /\ rfees.mempool_vsize = 2 * BLOCK_SIZE_DIVISOR
    /\ rfees.mempool_blocks = 2
    /\ rfees.mempool_tx_count > 3

\* ------------------------------------------------------- estimator: claims
\* the snapshot and the height of the latest call
CallSnapshot == da_call.difficulty_adjustment
CallHeight == da_call.lastblocknum
HasNumber(d, key) == key \in DOMAIN d /\ ~IsNone(d[key])
\* no key of the snapshot other than estimatedRetargetDate holds null
NoNullCount(d) == \A k \in DOMAIN d \ {"estimatedRetargetDate"} : ~IsNone(d[k])

\* C19: for every height and integer remainingBlocks, after the call
\* last_retarget = height - 2016 + remainingBlocks, found_blocks = height -
\* last_retarget, found_blocks + remainingBlocks = 2016 and blocks_behind =
\* expectedBlocks - found_blocks.
C19_RetargetArithmetic ==
    (HasNumber(CallSnapshot, "remainingBlocks") /\ NoNullCount(CallSnapshot)) =>
        LET rem == Get(CallSnapshot.remainingBlocks)
            exp == IF "expectedBlocks" \in DOMAIN CallSnapshot
                   THEN Get(CallSnapshot.expectedBlocks) ELSE 0
        IN /\ da_call.raised = "none"
           /\ da.last_retarget = Some(CallHeight - 2016 + rem)
           /\ da.found_blocks = Some(CallHeight - Get(da.last_retarget))
           /\ Get(da.found_blocks) + rem = 2016
           /\ da.blocks_behind = Some(exp - Get(da.found_blocks))

\* C19 witness: an update with a negative remainingBlocks at a low height.
C19_Witness ==
    /\ da_call.op = "update_difficulty_adjustment"
    /\ HasNumber(CallSnapshot, "remainingBlocks")
    /\ Get(CallSnapshot.remainingBlocks) < 0
    /\ CallHeight = 100
    /\ Get(da.found_blocks) > 2016
    /\ Get(da.last_retarget) < 0
    /\ Get(da.blocks_behind) < 0

\* C20: a call whose snapshot lacks any of its keys does not raise and takes
\* remainingBlocks = 0, expectedBlocks = 0 and timeAvg = 600000 for the
\* absent ones; with estimatedRetargetDate absent or null the date is None
\* and the period is "Unknown".
C20_MissingKeysTakeDefaults ==
    NoNullCount(CallSnapshot) =>
        /\ da_call.raised = "none"
        /\ "remainingBlocks" \notin DOMAIN CallSnapshot =>
              /\ da.last_retarget = Some(CallHeight - 2016)
              /\ da.found_blocks = Some(2016)
        /\ ("expectedBlocks" \notin DOMAIN CallSnapshot
               /\ "remainingBlocks" \notin DOMAIN CallSnapshot) =>
              da.blocks_behind = Some(0 - 2016)
        /\ "expectedBlocks" \notin DOMAIN CallSnapshot =>
              da.blocks_behind = Some(0 - Get(da.found_blocks))
        /\ "timeAvg" \notin DOMAIN CallSnapshot =>
              da.minutes_between_blocks = Some(Ratio(600000, 60000))
        /\ ~HasNumber(CallSnapshot, "estimatedRetargetDate") =>
              /\ da.estimated_retarget_date = Some(None)
              /\ da.estimated_retarget_period = Some(Unknown)

\* C20 witness: an update with an empty snapshot.
C20_Witness ==
    /\ da_call.op = "update_difficulty_adjustment"
    /\ DOMAIN CallSnapshot = {}
    /\ da_call.raised = "none"
    /\ da.estimated_retarget_period = Some(Unknown)
    /\ da.found_blocks = Some(2016)

\* --------------------------------------------------------- halving: claims
HalvingHeight == halving_call.current_height
HalvingGiven == halving_call.difficulty_adjustment

\* C21: after every construction or update with a height h >= 0, with or
\* without a snapshot and also when the call raised: current_halving is
\* floor(h / 210000), next_halving_height is (current_halving + 1) * 210000,
\* blocks_remaining is next_halving_height - h and lies in 1..210000,
\* current_reward is 50 / 2^current_halving and next_reward is half of it.
C21_RewardSchedule ==
    halving # <<>> =>
        LET h == HalvingHeight
            k == Get(halving.current_halving)
            cr == Get(halving.current_reward)
            nr == Get(halving.next_reward)
        IN /\ k * 210000 <= h /\ h < (k + 1) * 210000
           /\ Get(halving.next_halving_height) = (k + 1) * 210000
           /\ Get(halving.blocks_remaining) = Get(halving.next_halving_height) - h
           /\ Get(halving.blocks_remaining) \in 1..210000
           /\ cr.num * (2 ^ k) = 50 * cr.den
           /\ nr.num * cr.den * 2 = cr.num * nr.den

\* C21 witness: an update to the last block of the first period, with a
\* snapshot: one block remains, the reward is 50 and the next one 25.
C21_Witness ==
    /\ halving # <<>> /\ halving_call.op = "update"
    /\ HalvingHeight = 209999 /\ ~IsNone(HalvingGiven)
    /\ Get(halving.blocks_remaining) = 1
    /\ Get(halving.current_reward) = Ratio(50, 1)
    /\ Get(halving.next_reward) = Ratio(50, 2)

\* the time average a snapshot carries: dict.get("timeAvg", 600000)
GivenTimeAvg == JGet(Get(HalvingGiven), "timeAvg", Some(600000))
EstimateUnknown(field) == Get(halving[field]) = Unknown
EstimateFields == {"estimated_days", "estimated_date", "estimated_time_until"}

\* C22: in every state of a Halving instance the three time-estimate fields
\* are all "Unknown" or all computed; after a call that returned they are all
\* "Unknown" exactly when no snapshot was given or its average block time is
\* not positive; and a computed days value is never a numeric default (it is
\* the product of blocks_remaining and the block time).
C22_EstimatesJointlyKnown ==
    halving # <<>> =>
        /\ \/ \A f \in EstimateFields : EstimateUnknown(f)
           \/ \A f \in EstimateFields : ~EstimateUnknown(f)
        /\ halving_call.raised = "none" =>
             ((\A f \in EstimateFields : EstimateUnknown(f))
                <=> (IsNone(HalvingGiven) \/ Get(GivenTimeAvg) <= 0))
        /\ ~EstimateUnknown("estimated_days") =>
             Get(halving.estimated_days) =
                 MinsRemaining(Get(halving.blocks_remaining),
                               Ratio(Get(GivenTimeAvg), 60000))

\* ------------------------------------------ streaming client: more claims
\* min(max_backoff, 2^k), in units of 1/BackoffUnit second
BackoffFloor(k) == Min2(client.max_backoff * BackoffUnit, (2 ^ k) * BackoffUnit)

\* C23: a step that counts a transport-level error adds exactly one to the
\* retry counter and, unless the budget is exceeded, starts a sleep; a sleep
\* in progress after the k-th consecutive failure lasts b with
\* min(max_backoff, 2^k) <= b <= max_backoff and b < 2^k + 1 (the jitter is
\* below one second), that lower bound does not decrease with k, and the only
\* step from a sleep leads to Connecting.
C23_BackoffBounds ==
    /\ [][(retry_count' # retry_count /\ conn' = conn) =>
              /\ retry_count' = retry_count + 1
              /\ wstate' \in {"Backoff", "Stopped"}
              /\ wstate' = "Backoff" <=> retry_count' <= client.max_retries]_vars
    /\ [](wstate = "Backoff" =>
              /\ ~IsNone(backoff) /\ retry_count >= 1
              /\ BackoffFloor(retry_count) <= Get(backoff)
              /\ Get(backoff) <= client.max_backoff * BackoffUnit
              /\ Get(backoff) < ((2 ^ retry_count) + 1) * BackoffUnit
              /\ BackoffFloor(retry_count - 1) <= BackoffFloor(retry_count))
    /\ [][wstate = "Backoff" => wstate' = "Connecting"]_vars

\* C23 witness: the third consecutive failure of a client with the default
\* max_backoff started a sleep of 8.75 s.
C23_Witness ==
    /\ wstate = "Backoff" /\ retry_count = 3 /\ client.max_backoff = 60
    /\ backoff = Some(35)

\* the first transport-level error since the latest successful connection
FirstFailureAfterConnect == conn >= 1 /\ retry_count = 0 /\ retry_count' = 1

\* C24 as stated: every successful connection resets the retry counter to 0,
\* and the first transport-level failure after a successful connection never
\* stops the client: it starts a sleep computed with retry_count = 1.
C24_ResetOnEveryConnection ==
    /\ [][conn' = conn + 1 => retry_count' = 0]_vars
    /\ [][FirstFailureAfterConnect =>
              /\ wstate' = "Backoff"
              /\ \E j \in 0..(BackoffUnit - 1) :
                     backoff' = Some(Backoff(client.max_backoff, 1, j))]_vars

\* C24 as amended: every successful connection resets the retry counter to 0;
\* with max_retries >= 1 the first transport-level failure after a successful
\* connection never stops the client and starts a sleep computed with
\* retry_count = 1, however many failures the run has seen before; with
\* max_retries = 0 that failure stops the client.
C24_ResetOnEveryConnectionPositiveBudget ==
    /\ [][conn' = conn + 1 => retry_count' = 0]_vars
    /\ [][FirstFailureAfterConnect =>
              IF client.max_retries >= 1
              THEN /\ wstate' = "Backoff"
                   /\ \E j \in 0..(BackoffUnit - 1) :
                          backoff' = Some(Backoff(client.max_backoff, 1, j))
              ELSE wstate' = "Stopped" /\ exit_cause' = "max_retries"]_vars

\* C24 witness: max_retries = 1; connection 1 failed, connection 2 was
\* opened after that failure and failed too: two failures in the run, and a
\* sleep computed with retry_count = 1.
C24_Witness ==
    /\ client.max_retries = 1 /\ conn = 2 /\ fails_before = 1
    /\ wstate = "Backoff" /\ retry_count = 1
    /\ backoff = Some(Backoff(client.max_backoff, 1, 3))

\* C25: a step that takes a streaming client off its connection either is
\* the normal end of the stream, which leads straight to Connecting with the
\* retry counter, the sleep and the exit cause untouched, or counts a
\* failure, or is an unexpected error; and a connection opened with no
\* failure since the one before it gets all the subscription messages again.
C25_NormalCloseReconnects ==
    /\ [][(wstate = "Streaming" /\ wstate' \notin {"Streaming", "Handling"}) =>
              \/ /\ wstate' = "Connecting"
                 /\ UNCHANGED <<retry_count, backoff, exit_cause, conn, outbound>>
                 /\ IsNone(backoff)
              \/ /\ retry_count' = retry_count + 1
                 /\ wstate' \in {"Backoff", "Stopped"}
              \/ /\ wstate' = "Stopped" /\ exit_cause' = "unexpected"]_vars
    /\ []((wstate = "Streaming" /\ conn >= 2 /\ fails_before = 0) =>
              /\ MsgsOf(conn) = SubscriptionMessages(client)
              /\ MsgsOf(conn - 1) = SubscriptionMessages(client))

\* C25 witness: connection 1 ended normally, connection 2 was opened at once
\* (no failure in between) and has been sent the subscriptions again.
C25_Witness ==
    /\ wstate = "Streaming" /\ conn = 2 /\ fails_before = 0 /\ retry_count = 0
    /\ IsNone(backoff) /\ exit_cause = "none"
    /\ Len(SubscriptionMessages(client)) >= 2
    /\ MsgsOf(2) = SubscriptionMessages(client)
    /\ MsgsOf(1) = SubscriptionMessages(client)

\* ------------------------------------------------- fee engine: more claims
\* the list a successful update_mempool_blocks was called with
CallList == Get(fee_call.arg)
\* projection i of that list when it exists, as an optional next block
NextOf(i) == IF Len(CallList) > i THEN Some(CallList[i + 1]) ELSE None
Tier1 == optimize_median_fee(rfees, CallList[1], NextOf(1), None)
Tier2 ==
    IF Len(CallList) < 2 THEN DEFAULT_FEE
    ELSE optimize_median_fee(rfees, CallList[2], NextOf(2), Some(Tier1))
Tier3 ==
    IF Len(CallList) < 3 THEN DEFAULT_FEE
    ELSE optimize_median_fee(rfees, CallList[3], NextOf(3), Some(Tier2))

\* C26: in a successful update_mempool_blocks with L projections the three
\* median fees are: tier 1 from p[0] with p[1] as next when L > 1; tier 2 the
\* default fee when L < 2, else from p[1] with p[2] as next when L > 2 and
\* tier 1 as previous; tier 3 the default fee when L < 3, else from p[2] with
\* p[3] as next when L > 3 and tier 2 as previous.
C26_TiersByProjectionCount ==
    UpdatedFromList => fee_call.medians = <<Tier1, Tier2, Tier3>>

\* C26 witness: two projections; tier 2 came from the second one alone,
\* blended with tier 1 (it differs from the fee without a previous one), and
\* tier 3 is the default fee.
C26_Witness ==
    /\ UpdatedFromList /\ Len(CallList) = 2
    /\ fee_call.medians[2] = optimize_median_fee(rfees, CallList[2], None,
                                                 Some(fee_call.medians[1]))
    /\ fee_call.medians[2] # optimize_median_fee(rfees, CallList[2], None, None)
    /\ fee_call.medians[2] # DEFAULT_FEE
    /\ fee_call.medians[3] = DEFAULT_FEE

\* the cumulative blockVSize of the first i projections of the list
RECURSIVE CumVSize(_, _)
CumVSize(l, i) == IF i = 0 THEN 0 ELSE CumVSize(l, i - 1) + l[i].blockVSize
\* the projections of the list whose running vsize is still below the cap
BelowCap(l) == {i \in 1..Len(l) : UnderCap(CumVSize(l, i), MAX_MEMPOOL_MB)}
LastBelowCap(l) == CHOOSE i \in BelowCap(l) : \A j \in BelowCap(l) : j <= i

\* C27: after a successful update_mempool_blocks, from whatever state,
\* minimum_fee is the larger of the default fee and the lowest fee-range
\* value of the last projection whose running cumulative vsize is below the
\* cap, and the default fee when no projection is below the cap.
C27_MinimumFeeFromLastBelowCap ==
    UpdatedFromList =>
        rfees.minimum_fee =
            Some(IF BelowCap(CallList) = {} THEN DEFAULT_FEE
                 ELSE Max2(DEFAULT_FEE,
                           SeqMin(CallList[LastBelowCap(CallList)].feeRange)))

\* C28: build_fee_array changes nothing of the fee engine (its fields, the
\* stored projection list and the feeRange sequences in it), and a second
\* build_fee_array right after a first returns the same arrays.
C28_BuildFeeArrayIsPureRead ==
    [][fee_call'.op = "build_fee_array" =>
          /\ rfees' = rfees
          /\ fee_call.op = "build_fee_array" => fee_call'.ret = fee_call.ret]_vars

\* the five fees an instance publishes
PublishedFees(f) == [k \in FeeFields |-> f[k]]
\* the non-empty list a constructor was given, if any
ConstructedFromList ==
    FeeOp("__init__") /\ ~Rejects(fee_call.mempool_blocks_fee)

\* C30: after a successful update_mempool_blocks, from whatever state, and
\* after a construction with a non-empty projection list, with whatever fee
\* snapshot, the five published fees are those a fresh instance gets from
\* that list alone.
C30_FeesFromProjectionsAlone ==
    /\ UpdatedFromList =>
         PublishedFees(rfees) =
             PublishedFees(update_mempool_blocks(NewRecommendedFees, fee_call.arg).self)
    /\ ConstructedFromList =>
         PublishedFees(rfees) =
             PublishedFees(update_mempool_blocks(NewRecommendedFees,
                                                 fee_call.mempool_blocks_fee).self)

\* C30 witness: constructed with the complete high snapshot and a projection
\* list: all five fees are set and none is the snapshot's.
C30_Witness ==
    /\ ConstructedFromList
    /\ fee_call.recommended_fees = Some(HighFees)
    /\ AllFeesSet(rfees)
    /\ \A k \in FeeFields : rfees[k] # Some(HighFees[FeeKey[k]])

\* ------------------------------------------------------ estimators: claims
\* the instance DifficultyAdjustment(h, s) / Halving(h, s) a constructor
\* gives for the arguments and clock readings of the latest call
FreshDifficultyAdjustment ==
    update_difficulty_adjustment(BlankDifficultyAdjustment, da_call.lastblocknum,
                                 da_call.difficulty_adjustment, da_call.now).self
FreshHalving ==
    Halving__init__(BlankHalving, halving_call.current_height,
                    halving_call.difficulty_adjustment, halving_call.now,
                    halving_call.lag).self

\* C29: after any sequence of updates, an instance whose latest call
\* update(h, s) returned has exactly the fields of a fresh instance
\* constructed with (h, s) at the same clock readings; an update whose
\* snapshot has no estimatedRetargetDate leaves the retarget date None and its
\* countdown "Unknown" whatever they were, and a Halving update without a
\* snapshot leaves the three time estimates "Unknown" whatever they were.
C29_UpdateEqualsFreshInstance ==
    /\ []((da # <<>> /\ da_call.raised = "none") => da = FreshDifficultyAdjustment)
    /\ []((halving # <<>> /\ halving_call.raised = "none") => halving = FreshHalving)
    /\ [][(da # <<>> /\ da_call'.raised = "none"
           /\ "estimatedRetargetDate" \notin DOMAIN da_call'.difficulty_adjustment)
          => /\ da'.estimated_retarget_date = Some(None)
             /\ da'.estimated_retarget_period = Some(Unknown)]_vars
    /\ [][(halving # <<>> /\ IsNone(halving_call'.difficulty_adjustment))
          => \A f \in EstimateFields : halving'[f] = Some(Unknown)]_vars

\* C29 witness: a Halving instance updated to height 735000 without a
\* snapshot: the three estimates are "Unknown" and the instance equals a
\* fresh Halving(735000).
C29_Witness ==
    /\ halving # <<>> /\ halving_call.op = "update"
    /\ IsNone(HalvingGiven) /\ HalvingHeight = 735000
    /\ \A f \in EstimateFields : EstimateUnknown(f)
    /\ halving = FreshHalving
====
